---- MODULE Spec2Model ----
(***************************************************************************)
(* Model of the ingestion pipeline of cctv-news (src/crawler.py):          *)
(* CCTVNewsCrawler.save_news_to_db and the helpers it calls, and the run   *)
(* driver run_crawler with the listing fetcher in front of it.  The table  *)
(* `news` is a function from content_hash to row; `store` is what is       *)
(* durable on disk, `conn` is what the open connection sees (store plus    *)
(* the uncommitted changes of the running call).  Content files are the    *)
(* set `files` of relative paths under content_base_dir.  `net` tells      *)
(* whether the last outbound request has been followed by a time.sleep.    *)
(***************************************************************************)
EXTENDS Integers, Sequences, FiniteSets, TLC

VARIABLES store, conn, files, clock, pc, news_list, fetch_detailed, idx,
          new_count, duplicate_count, ev,
          net, rpc, page_num, max_pages, all_news, requested, calls, stats

\* The state of run_crawler: its position, its locals, the page requests it
\* made, the calls of save_news_to_db it made, the statistics it printed.
runvars == <<rpc, page_num, max_pages, all_news, requested, calls, stats>>

vars == <<store, conn, files, clock, pc, news_list, fetch_detailed, idx,
          new_count, duplicate_count, ev, net, runvars>>

(* ---------------------------- bounds ---------------------------------- *)
MaxBatch == 2

\* The largest max_pages run_crawler is called with.
MaxPages == 2

\* Line 61: a page contributes its first ten items.
PageCap == 10

(* ------------------------ values of the model ------------------------- *)
\* Python None / SQL NULL, and a key that the item dict does not hold.
None == "<None>"
Absent == "<absent>"

\* The days on which the pipeline may run, in order; the clock is an index.
Days == <<"2026/11/04", "2026/11/05">>

GoodDate == "2024-01-01 10:00:00"
BadDate == "not-a-date"

Url == "http://x/1"
OtherUrl == "http://x/2"

\* Two spellings of one identity (title + brief = "AB") that differ in title,
\* brief, focus_date and keywords; one more that differs only in url; a second
\* identity.
WellFormed ==
    {[title |-> "A", brief |-> "B", focus_date |-> GoodDate, url |-> Url, keywords |-> "k"],
     [title |-> "A", brief |-> "B", focus_date |-> GoodDate, url |-> OtherUrl, keywords |-> "k"],
     [title |-> "AB", brief |-> "", focus_date |-> BadDate, url |-> Url, keywords |-> Absent],
     [title |-> "C", brief |-> "", focus_date |-> GoodDate, url |-> Url, keywords |-> "k"]}

BaseItem ==
    [title |-> "A", brief |-> "B", focus_date |-> GoodDate, url |-> Url, keywords |-> "k"]

\* Items the upstream payload may hold with a key missing or null.
Malformed ==
    {[BaseItem EXCEPT !.title = Absent], [BaseItem EXCEPT !.url = Absent],
     [BaseItem EXCEPT !.focus_date = Absent],
     [BaseItem EXCEPT !.title = None], [BaseItem EXCEPT !.brief = None]}

Items == WellFormed \cup Malformed

RECURSIVE SeqsUpTo(_, _)
SeqsUpTo(S, n) ==
    IF n = 0 THEN {<<>>}
    ELSE LET shorter == SeqsUpTo(S, n - 1)
         IN  shorter \cup {Append(s, x) : s \in {t \in shorter : Len(t) = n - 1}, x \in S}

Batches == SeqsUpTo(Items, MaxBatch)

\* Outcomes of fetch_detailed_content: None, "" (container found, no text), text.
FetchOutcomes == {None, "", "Paragraph one."}

(* ------------------------------ helpers ------------------------------- *)
\* f"{x}" : None formats as the text None.
Format(x) == IF x = None THEN "None" ELSE x

\* hashlib.md5(...).hexdigest() on the contents the model can build.
md5(content) ==
    CASE content = "AB" -> "b86fc6b051f63d73de262d4c34e3a0a9"
      [] content = "C" -> "0d61f8370cad1d412f80b84d143e1257"
      [] content = "NoneB" -> "9c371572b3800194c78de9159c7bbac3"
      [] content = "ANone" -> "fd0893b1aa283e03b3b348ee3329cd09"

\* get_content_hash: raises KeyError when title or brief is missing.
HashRaises(news_item) == news_item.title = Absent \/ news_item.brief = Absent

get_content_hash(news_item) ==
    md5(Format(news_item.title) \o Format(news_item.brief))

\* Mutant: an optional string is tested with "is not None".
Truthy_NotNone(x) == x # None

\* Python truthiness of an optional string.
Truthy(x) == x # None /\ x # ""

\* datetime.strptime(publish_time, '%Y-%m-%d %H:%M:%S') then year/month/day.
Parses(publish_time) == publish_time = GoodDate

DateDir(publish_time) ==
    CASE publish_time = GoodDate -> "2024/01/01"

\* datetime.now() as year/month/day; the clock counts days.
TodayDir(t) == Days[t]

PathIn(dir, content_hash) == dir \o "/" \o content_hash \o ".txt"

\* get_content_file_path: the directory of the publish date when it parses
\* and os.makedirs succeeds there (mk1); otherwise the bare except takes
\* today's directory, whose own os.makedirs (mk2) raises out of the function
\* when it fails.
PathRaises(publish_time, mk1, mk2) ==
    ~(Parses(publish_time) /\ mk1) /\ ~mk2

\* Mutant: the path is always derived from the current date.
get_content_file_path_Today(content_hash, publish_time, t, mk1) ==
    PathIn(TodayDir(t), content_hash)

get_content_file_path(content_hash, publish_time, t, mk1) ==
    IF Parses(publish_time) /\ mk1
    THEN PathIn(DateDir(publish_time), content_hash)
    ELSE PathIn(TodayDir(t), content_hash)

\* save_detailed_content: False on empty content or when open/write fails (wr).
save_detailed_content(detailed_content, wr) ==
    Truthy(detailed_content) /\ wr

\* Mutant: the derived path is kept whatever save_detailed_content returned.
DetailPath_KeepOnFailure(path, saved) == path

\* Lines 183-185: the derived path is kept only when the file was saved.
DetailPath(path, saved) == IF saved THEN path ELSE None

\* Mutant: the lookup never finds the row.
Existing_Never(table, content_hash) == FALSE

\* Line 173-174: existing = the row's content_file_path, if the row exists.
Existing(table, content_hash) == content_hash \in DOMAIN table

\* Mutant: the stored path is never read back.
ExistingPath_AlwaysNull(table, content_hash) == None

ExistingPath(table, content_hash) ==
    IF Existing(table, content_hash) THEN table[content_hash].content_file_path ELSE None

\* Mutant: the detail fetch is decided by the flag alone.
NeedsDetail_FlagOnly(fd, table, content_hash) == fd

\* Mutant: detail is fetched for new identities only, never backfilled.
NeedsDetail_NewOnly(fd, table, content_hash) == fd /\ ~Existing(table, content_hash)

\* Mutant: the flag is not consulted.
NeedsDetail_IgnoreFlag(fd, table, content_hash) ==
    ~Existing(table, content_hash) \/ ~Truthy(ExistingPath(table, content_hash))

\* Line 179: fetch_detailed and (not existing or not existing[0]).
NeedsDetail(fd, table, content_hash) ==
    fd /\ (~Existing(table, content_hash) \/ ~Truthy(ExistingPath(table, content_hash)))

\* Lines 180-181 raise outside the try: title None cannot be sliced, url missing.
DetailRaises(news_item) == news_item.title = None \/ news_item.url = Absent

\* Mutant: the update is decided by the new path alone.
ShouldAttach_IgnoreExisting(content_file_path, existing_path) ==
    Truthy(content_file_path)

\* Line 193: content_file_path and not existing[0].
ShouldAttach(content_file_path, existing_path) ==
    Truthy(content_file_path) /\ ~Truthy(existing_path)

\* news_item.get('keywords', '')
GetKeywords(news_item) == IF news_item.keywords = Absent THEN "" ELSE news_item.keywords

\* Lines 204-215: the INSERT raises (inside the try) on a missing focus_date
\* (KeyError) and on a NULL title or summary (NOT NULL constraint).
InsertRaises(news_item) ==
    \/ news_item.focus_date = Absent
    \/ news_item.title = None
    \/ news_item.brief = None

\* content_hash TEXT PRIMARY KEY (line 24): an INSERT of a key the table holds
\* raises as well.
KeyConflict(table, content_hash) == content_hash \in DOMAIN table

NewRow(news_item, content_file_path, t) ==
    [title |-> news_item.title, summary |-> news_item.brief,
     publish_time |-> news_item.focus_date, keywords |-> GetKeywords(news_item),
     crawl_time |-> t, content_file_path |-> content_file_path]

\* Mutant: the update rewrites the whole row from the item.
AttachRow_Replace(row, news_item, content_file_path, t) ==
    NewRow(news_item, content_file_path, t)

\* Lines 194-198: UPDATE ... SET content_file_path = ?, crawl_time = CURRENT_TIMESTAMP.
AttachRow(row, news_item, content_file_path, t) ==
    [row EXCEPT !.content_file_path = content_file_path, !.crawl_time = t]

\* What get_statistics returns, before it was called.
NoStats == [total_count |-> 0, detailed_count |-> 0, time_range |-> <<None, None>>]

NoEvent ==
    [hash |-> None, fetched |-> FALSE, content |-> None, written |-> FALSE,
     result |-> "none"]

(* ------------------------------- Init --------------------------------- *)
Init ==
    /\ store = <<>>
    /\ conn = <<>>
    /\ files = {}
    /\ clock = 1
    /\ pc = "idle"
    /\ news_list = <<>>
    /\ fetch_detailed = FALSE
    /\ idx = 0
    /\ new_count = 0
    /\ duplicate_count = 0
    /\ ev = NoEvent
    /\ net = "quiet"
    /\ rpc = "idle"
    /\ page_num = 0
    /\ max_pages = 0
    /\ all_news = <<>>
    /\ requested = <<>>
    /\ calls = 0
    /\ stats = NoStats

(* ------------------------------ actions ------------------------------- *)
\* Lines 161-167: connect, zero the counters.  Time may have passed since
\* the last call.
Enter(batch) ==
    /\ pc # "loop"
    /\ \E fd \in BOOLEAN, t \in {clock, clock + 1} :
        /\ t <= Len(Days)
        /\ fetch_detailed' = fd
        /\ clock' = t
    /\ news_list' = batch
    /\ conn' = store
    /\ idx' = 0
    /\ new_count' = 0
    /\ duplicate_count' = 0
    /\ ev' = NoEvent
    /\ pc' = "loop"
    /\ UNCHANGED <<store, files>>

\* Mutant: the statements executed so far are committed when an exception
\* leaves save_news_to_db.
Propagate_Commits(e) ==
    /\ pc' = "raised"
    /\ store' = conn
    /\ ev' = e
    /\ UNCHANGED <<conn, clock, news_list, fetch_detailed, idx, new_count,
                   duplicate_count>>

\* An exception leaves save_news_to_db: nothing was committed, the connection
\* is dropped and its transaction rolled back.
Propagate(e) ==
    /\ pc' = "raised"
    /\ conn' = store
    /\ ev' = e
    /\ UNCHANGED <<store, clock, news_list, fetch_detailed, idx, new_count,
                   duplicate_count>>

\* Lines 190-219, the guarded persistence of one item.
Persist(news_item, content_hash, content_file_path, dbOk, e) ==
    LET existing_path == ExistingPath(conn, content_hash) IN
    IF Existing(conn, content_hash)
    THEN IF ShouldAttach(content_file_path, existing_path)
         THEN IF dbOk
              THEN /\ conn' = [conn EXCEPT ![content_hash] =
                                   AttachRow(@, news_item, content_file_path, clock)]
                   /\ new_count' = new_count + 1
                   /\ duplicate_count' = duplicate_count
                   /\ ev' = [e EXCEPT !.result = "attach"]
              ELSE /\ ev' = [e EXCEPT !.result = "caught"]
                   /\ UNCHANGED <<conn, new_count, duplicate_count>>
         ELSE /\ duplicate_count' = duplicate_count + 1
              /\ ev' = [e EXCEPT !.result = "duplicate"]
              /\ UNCHANGED <<conn, new_count>>
    ELSE IF KeyConflict(conn, content_hash)
         THEN /\ ev' = [e EXCEPT !.result = "conflict"]
              /\ UNCHANGED <<conn, new_count, duplicate_count>>
         ELSE IF InsertRaises(news_item) \/ ~dbOk
         THEN /\ ev' = [e EXCEPT !.result = "caught"]
              /\ UNCHANGED <<conn, new_count, duplicate_count>>
         ELSE /\ conn' = conn @@ (content_hash :> NewRow(news_item, content_file_path, clock))
              /\ new_count' = new_count + 1
              /\ duplicate_count' = duplicate_count
              /\ ev' = [e EXCEPT !.result = "insert"]

\* Lines 181-185 once the fetch returned text: derive the path, write the file.
\* os.makedirs works or fails under content_base_dir as a whole (mk), for the
\* publish date's directory and for today's alike.
WriteDetail(news_item, content_hash, detailed_content, e1) ==
    IF news_item.focus_date = Absent
    THEN /\ Propagate([e1 EXCEPT !.result = "raised"])
         /\ UNCHANGED files
    ELSE \E mk \in BOOLEAN :
        IF PathRaises(news_item.focus_date, mk, mk)
        THEN /\ Propagate([e1 EXCEPT !.result = "raised"])
             /\ UNCHANGED files
        ELSE \E wr \in BOOLEAN, dbOk \in BOOLEAN :
            LET p == get_content_file_path(content_hash, news_item.focus_date, clock, mk)
                saved == save_detailed_content(detailed_content, wr)
                content_file_path == DetailPath(p, saved)
            IN  /\ files' = IF wr THEN files \cup {p} ELSE files
                /\ Persist(news_item, content_hash, content_file_path, dbOk,
                           [e1 EXCEPT !.written = wr])
                /\ idx' = idx + 1
                /\ UNCHANGED <<store, clock, pc, news_list, fetch_detailed>>

\* One pass of the for loop (lines 169-219) over news_item.
Body(news_item) ==
    IF HashRaises(news_item)
    THEN /\ Propagate([NoEvent EXCEPT !.result = "raised"])
         /\ UNCHANGED files
    ELSE
    LET content_hash == get_content_hash(news_item)
        e0 == [NoEvent EXCEPT !.hash = content_hash]
    IN
    IF NeedsDetail(fetch_detailed, conn, content_hash)
    THEN IF DetailRaises(news_item)
         THEN /\ Propagate([e0 EXCEPT !.result = "raised"])
              /\ UNCHANGED files
         ELSE \E detailed_content \in FetchOutcomes :
             LET e1 == [e0 EXCEPT !.fetched = TRUE, !.content = detailed_content] IN
             IF Truthy(detailed_content)
             THEN WriteDetail(news_item, content_hash, detailed_content, e1)
             ELSE \E dbOk \in BOOLEAN :
                 /\ Persist(news_item, content_hash, None, dbOk, e1)
                 /\ idx' = idx + 1
                 /\ UNCHANGED <<store, files, clock, pc, news_list, fetch_detailed>>
    ELSE \E dbOk \in BOOLEAN :
        /\ Persist(news_item, content_hash, ExistingPath(conn, content_hash), dbOk, e0)
        /\ idx' = idx + 1
        /\ UNCHANGED <<store, files, clock, pc, news_list, fetch_detailed>>

\* Mutant: no time.sleep after a request.
Sleep_Skipped(n) == n

\* requests.get (lines 57 and 90) and time.sleep (lines 186 and 254), as
\* they change net.
Request(n) == "hot"

Sleep(n) == "quiet"

\* Lines 181-186 as the pass just made went through them: the request of
\* fetch_detailed_content, then time.sleep(1) unless an exception left the
\* call between the two.
Pace ==
    net' = IF ~ev'.fetched THEN net
           ELSE IF pc' = "raised" THEN Request(net)
           ELSE Sleep(Request(net))

\* Lines 221-224: commit, close, return (new_count, duplicate_count).
Commit ==
    /\ store' = conn
    /\ pc' = "returned"
    /\ UNCHANGED <<conn, files, clock, news_list, fetch_detailed, idx, new_count,
                   duplicate_count, ev>>

(* The pipeline over any batch of at most MaxBatch items: the argument is   *)
(* read item by item as the for loop advances, and ends anywhere.           *)
Call ==
    /\ Enter(<<>>)
    /\ net' = "quiet"
    /\ UNCHANGED runvars

Iterate ==
    /\ pc = "loop"
    /\ idx < MaxBatch
    /\ \E news_item \in Items : Body(news_item)
    /\ Pace
    /\ UNCHANGED runvars

Return ==
    /\ pc = "loop"
    /\ Commit
    /\ UNCHANGED <<net, runvars>>

Next == Call \/ Iterate \/ Return

Spec == Init /\ [][Next]_vars

(* The pipeline called with a list the caller holds and passes again to     *)
(* every later call.                                                        *)
CallList ==
    /\ pc = "idle"
    /\ \E batch \in Batches : Enter(batch)
    /\ net' = "quiet"
    /\ UNCHANGED runvars

CallAgain ==
    /\ pc # "idle"
    /\ Enter(news_list)
    /\ net' = "quiet"
    /\ UNCHANGED runvars

IterateList ==
    /\ pc = "loop"
    /\ idx < Len(news_list)
    /\ Body(news_list[idx + 1])
    /\ Pace
    /\ UNCHANGED runvars

ReturnList ==
    /\ pc = "loop"
    /\ idx = Len(news_list)
    /\ Commit
    /\ UNCHANGED <<net, runvars>>

NextList == CallList \/ CallAgain \/ IterateList \/ ReturnList

SpecList == Init /\ [][NextList]_vars

(* ------------------------------ run_crawler --------------------------- *)
\* What one run of run_crawler leaves untouched in the pipeline's state.
pipevars == <<store, conn, files, clock, pc, news_list, fetch_detailed, idx,
              new_count, duplicate_count, ev>>

OtherItem ==
    [title |-> "C", brief |-> "", focus_date |-> GoodDate, url |-> Url, keywords |-> "k"]

\* The lists data.list of a listing page may hold: an item followed by one
\* without 'url', and one item more than a page contributes.
UpstreamLists ==
    {<<OtherItem, [BaseItem EXCEPT !.url = Absent]>>,
     [i \in 1..(PageCap + 1) |-> BaseItem]}

\* What requests.get of a listing page may give: an exception (timeout,
\* connection error), a status other than 200, a body that is not JSONP, a
\* JSON object without data.list, and a JSONP body with a list.
Responses ==
    {[raised |-> TRUE, status_code |-> 0, text |-> "", list |-> <<>>],
     [raised |-> FALSE, status_code |-> 500, text |-> "", list |-> <<>>],
     [raised |-> FALSE, status_code |-> 200, text |-> "garbage", list |-> <<>>],
     [raised |-> FALSE, status_code |-> 200, text |-> "no list", list |-> <<>>]}
    \cup {[raised |-> FALSE, status_code |-> 200, text |-> "jsonp", list |-> l] :
            l \in UpstreamLists}

Failed(response) ==
    response.raised \/ response.status_code # 200 \/ response.text # "jsonp"

\* s[:n]
Take(s, n) == SubSeq(s, 1, IF Len(s) < n THEN Len(s) ELSE n)

\* parse_jsonp: data['data']['list'], [] on any exception.
parse_jsonp(response) ==
    IF response.text = "jsonp" THEN response.list ELSE <<>>

\* Mutant: the page is not cut to its first ten items.
fetch_news_page_NoCap(response) ==
    IF response.raised THEN <<>>
    ELSE IF response.status_code = 200 THEN parse_jsonp(response)
    ELSE <<>>

\* fetch_news_page: the first ten items of the parsed list on status 200, []
\* on any other status and on any exception.
fetch_news_page(response) ==
    IF response.raised THEN <<>>
    ELSE IF response.status_code = 200 THEN Take(parse_jsonp(response), PageCap)
    ELSE <<>>

\* publish_time values as SQLite orders TEXT: '2024-...' < 'not-a-date'.
TimeOrder == <<GoodDate, BadDate>>

MinTime(S) ==
    IF S = {} THEN None
    ELSE TimeOrder[CHOOSE i \in DOMAIN TimeOrder :
            TimeOrder[i] \in S /\ \A j \in DOMAIN TimeOrder : j < i => TimeOrder[j] \notin S]

MaxTime(S) ==
    IF S = {} THEN None
    ELSE TimeOrder[CHOOSE i \in DOMAIN TimeOrder :
            TimeOrder[i] \in S /\ \A j \in DOMAIN TimeOrder : j > i => TimeOrder[j] \notin S]

get_statistics(table) ==
    LET times == {table[h].publish_time : h \in DOMAIN table} IN
    [total_count |-> Cardinality(DOMAIN table),
     detailed_count |->
        Cardinality({h \in DOMAIN table : table[h].content_file_path # None}),
     time_range |-> <<MinTime(times), MaxTime(times)>>]

\* main / run_crawler, lines 245-249: a new process with a new crawler over
\* the database and the content files of the runs before it.
run_crawler ==
    /\ rpc \notin {"pages", "saving"}
    /\ \E n \in 1..MaxPages : max_pages' = n
    /\ rpc' = "pages"
    /\ page_num' = 1
    /\ all_news' = <<>>
    /\ requested' = <<>>
    /\ calls' = 0
    /\ stats' = NoStats
    /\ net' = "quiet"
    /\ pc' = "idle"
    /\ conn' = store
    /\ news_list' = <<>>
    /\ fetch_detailed' = FALSE
    /\ idx' = 0
    /\ new_count' = 0
    /\ duplicate_count' = 0
    /\ ev' = NoEvent
    /\ UNCHANGED <<store, files, clock>>

\* Lines 250-254: one pass of the page loop.
FetchPage ==
    /\ rpc = "pages"
    /\ page_num <= max_pages
    /\ \E response \in Responses :
        LET page_news == fetch_news_page(response) IN
        /\ all_news' = IF page_news # <<>> THEN all_news \o page_news ELSE all_news
        /\ requested' = Append(requested, [page |-> page_num, ok |-> ~Failed(response)])
    /\ page_num' = page_num + 1
    /\ net' = Sleep(Request(net))
    /\ UNCHANGED <<rpc, max_pages, calls, stats, pipevars>>

\* Lines 256-258: nothing was fetched, print that and return.
NoNews ==
    /\ rpc = "pages"
    /\ page_num > max_pages
    /\ all_news = <<>>
    /\ rpc' = "no_news"
    /\ UNCHANGED <<page_num, max_pages, all_news, requested, calls, stats, net, pipevars>>

\* Line 262: save_news_to_db(all_news, fetch_detailed).
Save ==
    /\ rpc = "pages"
    /\ page_num > max_pages
    /\ all_news # <<>>
    /\ Enter(all_news)
    /\ calls' = calls + 1
    /\ rpc' = "saving"
    /\ UNCHANGED <<page_num, max_pages, all_news, requested, stats, net>>

\* Lines 264-271: get_statistics and the printed report.
Report ==
    /\ rpc = "saving"
    /\ pc = "returned"
    /\ stats' = get_statistics(store)
    /\ rpc' = "reported"
    /\ UNCHANGED <<page_num, max_pages, all_news, requested, calls, net, pipevars>>

\* The exception that left save_news_to_db leaves run_crawler and main.
Abort ==
    /\ rpc = "saving"
    /\ pc = "raised"
    /\ rpc' = "raised"
    /\ UNCHANGED <<page_num, max_pages, all_news, requested, calls, stats, net, pipevars>>

NextRun ==
    run_crawler \/ FetchPage \/ NoNews \/ Save \/ IterateList \/ ReturnList
        \/ Report \/ Abort

SpecRun == Init /\ [][NextRun]_vars

(* ------------------------------ properties ---------------------------- *)
\* A step that ran the loop body on one item (to its end, or to an exception
\* that left the call).
ItemStep == pc = "loop" /\ (idx' = idx + 1 \/ pc' = "raised")

\* The table holds a row for the identity with a content_file_path.
HasPath(table, content_hash) ==
    /\ content_hash \in DOMAIN table
    /\ table[content_hash].content_file_path \notin {None, ""}

\* C1: fetch_detailed_content is never invoked for an item whose identity has,
\* when the item is processed, a record with a non-null content_file_path.
C1_AtMostOnceFetch ==
    [][ItemStep /\ ev'.fetched => ~HasPath(conn, ev'.hash)]_vars

\* An item of an identity with a durable path was processed with
\* fetch_detailed = True and no fetch was made.
C1_Witness ==
    /\ pc = "loop"
    /\ fetch_detailed
    /\ ev.result = "duplicate"
    /\ ~ev.fetched
    /\ HasPath(store, ev.hash)

PathsPointToFiles(table) ==
    \A h \in DOMAIN table : HasPath(table, h) => table[h].content_file_path \in files

\* C2: every record with a non-null content_file_path points to a content file
\* that was written, in the durable table and in the running call's view; and a
\* loop pass whose fetch returned nothing or whose write failed leaves the
\* item's identity without a path.
C2_FileRecordConsistency ==
    /\ [](PathsPointToFiles(store) /\ PathsPointToFiles(conn))
    /\ [][ItemStep /\ ev'.fetched /\ (~Truthy(ev'.content) \/ ~ev'.written)
            => ~HasPath(conn', ev'.hash)]_vars

\* A row was inserted without a path after a fetch that returned text whose
\* write failed, while another record already holds a path.
C2_Witness ==
    /\ pc = "loop"
    /\ ev.fetched /\ Truthy(ev.content) /\ ~ev.written
    /\ ev.result = "insert"
    /\ ~HasPath(conn, ev.hash)
    /\ \E h \in DOMAIN store : HasPath(store, h)

\* The directories a content file can be in, and the identities of the items.
Dirs == {DateDir(GoodDate)} \cup {Days[t] : t \in DOMAIN Days}

Identities == {get_content_hash(i) : i \in {j \in Items : ~HashRaises(j)}}

HasFile(content_hash) == \E d \in Dirs : PathIn(d, content_hash) \in files

\* C3: when a run has ended, a record's content_file_path is non-null if and
\* only if a detail fetch for its identity succeeded and its file was written:
\* no content file is left without a record that references it.
C3_PathIffDetailWritten ==
    pc = "returned" => \A h \in Identities : HasPath(store, h) <=> HasFile(h)

\* C4: once a record's content_file_path is non-null it is never cleared or
\* replaced, in the durable table over all runs and in the running call's view
\* over the passes of its loop.
C4_PathMonotonic ==
    [][/\ \A h \in DOMAIN store : HasPath(store, h) =>
            /\ h \in DOMAIN store'
            /\ store'[h].content_file_path = store[h].content_file_path
       /\ pc' # "raised" => \A h \in DOMAIN conn : HasPath(conn, h) =>
            /\ h \in DOMAIN conn'
            /\ conn'[h].content_file_path = conn[h].content_file_path]_vars

\* A record that got its path on the first day was processed again on the
\* second day with fetch_detailed = True, after which a call committed.
C4_Witness ==
    /\ pc = "returned"
    /\ fetch_detailed
    /\ clock = 2
    /\ ev.result = "duplicate"
    /\ HasPath(store, ev.hash)
    /\ store[ev.hash].crawl_time = 1

\* Every item of the list has an identity stored with a content file.
AllDetailed ==
    \A i \in 1..Len(news_list) :
        /\ ~HashRaises(news_list[i])
        /\ HasPath(store, get_content_hash(news_list[i]))

\* C5: when every item of the list is stored with its detail, a further call
\* with the same list changes no row, adds none, fetches nothing, does not
\* raise and returns (0, number of items).
C5_Idempotent ==
    /\ [](pc = "loop" /\ AllDetailed =>
            /\ conn = store
            /\ new_count = 0
            /\ duplicate_count = idx
            /\ ~ev.fetched)
    /\ [][pc = "loop" /\ AllDetailed =>
            /\ pc' # "raised"
            /\ pc' = "returned" =>
                /\ store' = store
                /\ files' = files
                /\ new_count' = 0
                /\ duplicate_count' = Len(news_list)]_vars

\* A call over a list of two items, all stored with detail, has returned (0, 2).
C5_Witness ==
    /\ pc = "returned"
    /\ fetch_detailed
    /\ Len(news_list) = 2
    /\ news_list[1].title # news_list[2].title
    /\ AllDetailed
    /\ new_count = 0
    /\ duplicate_count = 2

\* What may differ between a row and its later state.
RowFrame(r, r2) ==
    /\ r2.title = r.title
    /\ r2.summary = r.summary
    /\ r2.publish_time = r.publish_time
    /\ r2.keywords = r.keywords
    /\ r2 # r => r.content_file_path \in {None, ""} /\ r2.content_file_path \notin {None, ""}

C7_DedupByIdentity ==
    /\ [](\A h \in DOMAIN conn :
            /\ get_content_hash([title |-> conn[h].title, brief |-> conn[h].summary]) = h
            /\ \A g \in DOMAIN conn :
                conn[g].title \o conn[g].summary = conn[h].title \o conn[h].summary
                    => g = h)
    /\ [][ItemStep =>
            /\ ev'.result # "conflict"
            /\ ev'.result = "insert" => ev'.hash \notin DOMAIN conn]_vars

\* The second item of a batch met the row its first item inserted, not yet
\* committed, and was counted as a duplicate.
C7_Witness ==
    /\ pc = "loop"
    /\ idx = 2
    /\ ev.result = "duplicate"
    /\ ev.hash \in DOMAIN conn
    /\ ev.hash \notin DOMAIN store
    /\ new_count = 1
    /\ duplicate_count = 1

\* The pass fetched text and wrote it to a file.
DetailWritten(e) == e.fetched /\ Truthy(e.content) /\ e.written

\* C8: every loop pass does exactly one of: add one to new_count with a change
\* of the table (an INSERT of an absent identity, or an attach); add one to
\* duplicate_count with no change (the row had a path, or had none and
\* fetch_detailed is False or the fetch or write failed); or raise, with both
\* counters and the table unchanged.  An absent identity is inserted unless
\* the INSERT raises; a present one with a path, or met with fetch_detailed
\* False, is a duplicate.  The counters never exceed the items processed.
C8_Tally ==
    /\ [](new_count + duplicate_count <= idx)
    /\ [][ItemStep =>
            LET h == ev'.hash
                existed == h \in DOMAIN conn
                hadPath == HasPath(conn, h)
            IN  /\ \/ /\ ev'.result \in {"insert", "attach"}
                      /\ ev'.result = "insert" <=> ~existed
                      /\ new_count' = new_count + 1
                      /\ duplicate_count' = duplicate_count
                      /\ conn' # conn
                   \/ /\ ev'.result = "duplicate"
                      /\ existed
                      /\ hadPath \/ ~fetch_detailed \/ ~DetailWritten(ev')
                      /\ duplicate_count' = duplicate_count + 1
                      /\ new_count' = new_count
                      /\ conn' = conn
                   \/ /\ ev'.result = "caught" \/ pc' = "raised"
                      /\ new_count' = new_count
                      /\ duplicate_count' = duplicate_count
                      /\ pc' = "loop" => conn' = conn
                /\ pc' = "loop" /\ ~existed => ev'.result \in {"insert", "caught"}
                /\ pc' = "loop" /\ existed /\ (hadPath \/ ~fetch_detailed)
                        => ev'.result = "duplicate"]_vars

\* The second run of the scenario: the item's row is stored without a path and
\* a call with fetch_detailed = False over that one item returned (0, 1).
C8_Witness ==
    /\ pc = "returned"
    /\ ~fetch_detailed
    /\ idx = 1
    /\ ev.hash \in DOMAIN store
    /\ ~HasPath(store, ev.hash)
    /\ new_count = 0
    /\ duplicate_count = 1

C10_NoItemAbortsBatch == pc # "raised"

\* The item of the list the current loop pass is about.
CurrentItem == news_list[idx + 1]

C15_BadDateTolerated ==
    [][ItemStep /\ fetch_detailed /\ ~Parses(CurrentItem.focus_date)
                /\ ev'.fetched /\ Truthy(ev'.content) =>
            /\ pc' # "raised"
            /\ ev'.written /\ ev'.result # "caught" =>
                /\ PathIn(Days[clock], ev'.hash) \in files'
                /\ HasPath(conn', ev'.hash)
                /\ conn'[ev'.hash].content_file_path = PathIn(Days[clock], ev'.hash)
                /\ new_count' = new_count + 1]_vars

\* C16: a call with fetch_detailed = False never fetches detail, never writes
\* a file and never changes a row that exists; the only change of a pass is
\* the insert, with a null path, of an identity that was absent; an item whose
\* identity is stored without a path is counted as a duplicate; the commit of
\* such a call leaves every durable row as it was and adds rows without a path.
C16_MetadataOnly ==
    /\ [][ItemStep /\ ~fetch_detailed =>
            /\ ~ev'.fetched
            /\ files' = files
            /\ pc' = "loop" =>
                /\ \A h \in DOMAIN conn : h \in DOMAIN conn' /\ conn'[h] = conn[h]
                /\ conn' # conn =>
                    /\ ev'.result = "insert"
                    /\ ev'.hash \notin DOMAIN conn
                    /\ DOMAIN conn' = DOMAIN conn \cup {ev'.hash}
                    /\ conn'[ev'.hash].content_file_path = None
                /\ ev'.hash \in DOMAIN conn =>
                    /\ ev'.result = "duplicate"
                    /\ duplicate_count' = duplicate_count + 1
                    /\ new_count' = new_count]_vars
    /\ [][pc = "loop" /\ pc' = "returned" /\ ~fetch_detailed =>
            /\ files' = files
            /\ \A h \in DOMAIN store : h \in DOMAIN store' /\ store'[h] = store[h]
            /\ \A h \in DOMAIN store' \ DOMAIN store :
                    store'[h].content_file_path = None]_vars

\* A call with fetch_detailed = False inserted one identity without a path and
\* then met an identity that is stored without a path while content files of
\* earlier calls exist: it counted it as a duplicate and fetched nothing.
C16_Witness ==
    /\ pc = "loop"
    /\ ~fetch_detailed
    /\ idx = 2
    /\ new_count = 1
    /\ duplicate_count = 1
    /\ ev.result = "duplicate"
    /\ ~ev.fetched
    /\ ev.hash \in DOMAIN store
    /\ ~HasPath(conn, ev.hash)
    /\ files # {}

\* C17: the durable table changes only in the commit that follows the last
\* item of a call, which makes all inserts and attaches of the call durable
\* together; a call that an exception leaves changes nothing in the durable
\* table, its connection's changes are dropped, the content files it wrote
\* stay, and an identity left with a file and no path is fetched again when an
\* item of it is next processed with fetch_detailed = True.
C17_BatchCommit ==
    /\ [][store' # store =>
            /\ pc = "loop" /\ pc' = "returned"
            /\ idx = Len(news_list)
            /\ store' = conn]_vars
    /\ [][ItemStep /\ pc' = "raised" => store' = store /\ conn' = store]_vars
    /\ [][files \subseteq files']_vars
    /\ [][ItemStep /\ fetch_detailed /\ ~HashRaises(CurrentItem)
                /\ ~DetailRaises(CurrentItem)
                /\ HasFile(ev'.hash) /\ ~HasPath(conn, ev'.hash) => ev'.fetched]_vars

\* The second item of the list lacks 'url' and aborts every call that fetches
\* detail; an earlier call wrote the first item's content file and committed
\* nothing; the running call has fetched the first item's detail again.
C17_Witness ==
    /\ pc = "loop"
    /\ fetch_detailed
    /\ idx = 1
    /\ Len(news_list) = 2
    /\ news_list[2].url = Absent
    /\ store = <<>>
    /\ ev.fetched
    /\ ~ev.written
    /\ HasFile(ev.hash)

\* C18: a detail fetch that returns the empty string is treated as one that
\* returns nothing: the pass does not raise, writes no file and records no
\* path; an identity that was absent is still inserted, with a null path
\* (unless the INSERT raises), an identity that was stored is left as it was
\* and counted as a duplicate; and an identity without a path is fetched
\* whenever an item of it is processed with fetch_detailed = True.
C18_EmptyBodyIsAbsence ==
    /\ [][ItemStep /\ ev'.fetched /\ ev'.content \in {None, ""} =>
            /\ pc' = "loop"
            /\ ~ev'.written
            /\ files' = files
            /\ ~HasPath(conn', ev'.hash)
            /\ \A h \in DOMAIN conn : h \in DOMAIN conn' /\ conn'[h] = conn[h]
            /\ IF ev'.hash \in DOMAIN conn
               THEN /\ ev'.result = "duplicate"
                    /\ conn' = conn
                    /\ duplicate_count' = duplicate_count + 1
               ELSE \/ /\ ev'.result = "insert"
                       /\ ev'.hash \in DOMAIN conn'
                       /\ conn'[ev'.hash].content_file_path = None
                       /\ new_count' = new_count + 1
                    \/ /\ ev'.result = "caught"
                       /\ conn' = conn]_vars
    /\ [][ItemStep /\ pc' = "loop" /\ fetch_detailed /\ ~HasPath(conn, ev'.hash)
            => ev'.fetched]_vars

\* An identity inserted without a path after an empty body was processed
\* again with fetch_detailed = True: the fetch was made again, returned the
\* empty string again, and the record still has no path and no file.
C18_Witness ==
    /\ pc = "loop"
    /\ fetch_detailed
    /\ ev.fetched
    /\ ev.content = ""
    /\ ev.result = "duplicate"
    /\ ev.hash \in DOMAIN store
    /\ store[ev.hash].content_file_path = None
    /\ conn[ev.hash].content_file_path = None
    /\ ~HasFile(ev.hash)

\* run_crawler has ended: with the report, with "no news", or by an exception.
RunEnded == rpc \in {"reported", "no_news", "raised"}

\* A step of the page loop: one request for a listing page.
PageStep == rpc = "pages" /\ page_num' = page_num + 1

\* The pages 1..n in increasing order, once each.
PagesUpTo(n) == [i \in 1..n |-> i]

RequestedPages == [i \in DOMAIN requested |-> requested[i].page]

\* C11: a run of run_crawler ends only by reporting the statistics, whatever
\* the listing and detail fetches gave, also when every listing page came
\* back empty.
C11_EndsByReporting == RunEnded => rpc = "reported"

C13_Paced ==
    /\ [][PageStep \/ (ItemStep /\ ev'.fetched) =>
            /\ net = "quiet"
            /\ net' = "quiet" \/ pc' = "raised"]_vars
    /\ [](net = "hot" => pc = "raised" /\ rpc \in {"saving", "raised"})

\* After two listing pages, the first item's detail fetch left its new
\* record without a path, and the second item, of the same identity, had its
\* detail fetched too, which failed: each request after the sleep of the one
\* before.
C13_Witness ==
    /\ rpc = "saving"
    /\ pc = "loop"
    /\ fetch_detailed
    /\ idx = 2
    /\ Len(requested) = 2
    /\ new_count = 1
    /\ ev.fetched
    /\ ev.content = None
    /\ ev.result = "duplicate"
    /\ ev.hash \notin DOMAIN store
    /\ net = "quiet"

====
